---- MODULE Spec2Model ----
(***************************************************************************)
(* The thread pool of projects/multithreaded_webserver (src/lib.rs) and    *)
(* the way main.rs drives it: ThreadPool::new, ThreadPool::execute, the    *)
(* Worker loop and Drop for ThreadPool.                                    *)
(*                                                                         *)
(* The main thread and every Worker thread are processes with a program    *)
(* counter; the mpsc channel is a FIFO sequence plus the liveness of its   *)
(* two ends; the Mutex around the Receiver is the id of its holder.        *)
(***************************************************************************)
EXTENDS Integers, Sequences, FiniteSets, TLC

\* Largest pool size New is tried with (0 is the failing size).
MaxSize == 2
\* Largest number of execute calls the main thread makes before teardown.
MaxJobs == 3
MaxContents == 4
MaxQuery == 2
MaxQuota == 10
MaxCalls == 2
MaxPostCalls == 5

Workers == 0 .. (MaxSize - 1)
Jobs == 1 .. MaxJobs

\* What the closure handed to execute does when called: return, panic, or
\* never return.
JobKinds == {"ok", "fault", "hang"}

\* The Mutex is free.
NoHolder == -1
\* No message: the Worker has no recv() result in hand.
NoJob == 0
\* recv() returned Err(RecvError).
Closed == -2

VARIABLES
    pcMain,     \* position of the main thread
    unwinding,  \* the main thread is unwinding from a panic in execute
    size,       \* the argument of ThreadPool::new
    spawned,    \* loop variable id of ThreadPool::new = workers.len()
    sender,     \* ThreadPool.sender: "NoPool", "Some", "None"
    chan,       \* the channel: "absent", "open" (a Sender lives), "closed"
    rxRefs,     \* strong count of the Arc around Mutex<Receiver>
    queue,      \* jobs buffered in the channel, head first
    lock,       \* holder of the Mutex, or NoHolder
    wpc,        \* position of each Worker thread
    msg,        \* each Worker's local `message` (NoJob, Closed or a job)
    thread,     \* Worker.thread per worker: "Some" or "None"
    joinIdx,    \* index of the worker Drop's for loop is at
    joins,      \* how many times each Worker's thread has been joined
    nextJob,    \* id the next submitted job gets
    kind,       \* what each submitted job does when run
    started,    \* how many times each job has been called
    completed,  \* how many times each job has returned
    dequeued,   \* the jobs in the order recv() handed them out
    backlog,    \* the jobs still buffered when drop gave up the Sender
    poisoned,   \* the Mutex is poisoned (a thread panicked holding its guard)
    \* minigrep: search(query, contents)
    query,      \* the argument query
    contents,   \* the argument contents
    grepPc,     \* position of the caller of search: "idle", "call", "loop",
                \* "returned", "done"
    lineIdx,    \* how many lines the for loop has been through
    res,        \* the Vec `res` of minigrep::search
    iterRes,    \* what minigrep_iter::search returned
    \* refcell_smart_pointer: LimitTracker and its MockMessenger
    trackerPc,  \* "idle" (no tracker in play), "start", "ready"
    max,        \* LimitTracker.max
    value,      \* LimitTracker.value
    sentMessages, \* MockMessenger.sent_messages
    calls,      \* how many times set_value has been called
    \* oop: the blog Post and its State objects
    state,      \* Post.state: "NoPost" (no Post in play), "Draft",
                \* "PendingReview", "Published"
    content,    \* Post.content
    lastCall,   \* the method of Post called last
    returned,   \* what the last call of content() returned
    added,      \* the texts given to add_text, in the order of the calls
    postCalls   \* how many methods have been called on the Post

grepVars == << query, contents, grepPc, lineIdx, res, iterRes >>
trackerVars == << trackerPc, max, value, sentMessages, calls >>
postVars == << state, content, lastCall, returned, added, postCalls >>
otherVars == << grepVars, trackerVars, postVars >>

poolVars == << pcMain, unwinding, size, spawned, sender, chan, rxRefs, queue,
               lock, wpc, msg, thread, joinIdx, joins, nextJob, kind, started,
               completed, dequeued, backlog, poisoned >>

vars == << poolVars, otherVars >>

mainVars == << pcMain, unwinding, size, spawned, sender, joinIdx >>
histVars == << started, completed, dequeued, backlog >>

\* Nothing has called search.
GrepIdle ==
    /\ query = << >>
    /\ contents = << >>
    /\ grepPc = "idle"
    /\ lineIdx = 0
    /\ res = << >>
    /\ iterRes = << >>

\* No LimitTracker has been made.
TrackerIdle ==
    /\ trackerPc = "idle"
    /\ max = 0
    /\ value = 0
    /\ sentMessages = << >>
    /\ calls = 0

\* No Post has been made.
PostIdle ==
    /\ state = "NoPost"
    /\ content = << >>
    /\ lastCall = "none"
    /\ returned = << >>
    /\ added = << >>
    /\ postCalls = 0

\* The thread pool before ThreadPool::new.
PoolInit ==
    /\ pcMain = "start"
    /\ unwinding = FALSE
    /\ size = 0
    /\ spawned = 0
    /\ sender = "NoPool"
    /\ chan = "absent"
    /\ rxRefs = 0
    /\ queue = << >>
    /\ lock = NoHolder
    /\ wpc = [w \in Workers |-> "unborn"]
    /\ msg = [w \in Workers |-> NoJob]
    /\ thread = [w \in Workers |-> "None"]
    /\ joinIdx = 0
    /\ joins = [w \in Workers |-> 0]
    /\ nextJob = 1
    /\ kind = [j \in Jobs |-> "ok"]
    /\ started = [j \in Jobs |-> 0]
    /\ completed = [j \in Jobs |-> 0]
    /\ dequeued = << >>
    /\ backlog = << >>
    /\ poisoned = FALSE

Init == PoolInit /\ GrepIdle /\ TrackerIdle /\ PostIdle

(***************************************************************************)
(* The main thread: ThreadPool::new                                        *)
(***************************************************************************)

\* The assertion written as size >= 0.
SizeOkAllowsZero(n) == n >= 0

\* assert!(size > 0)
SizeOk(n) == n > 0

\* ThreadPool::new up to the for loop: the assertion, then mpsc::channel()
\* and Arc::new(Mutex::new(receiver)). A failed assertion panics before
\* anything is created.
NewBegin(n) ==
    /\ pcMain = "start"
    /\ size' = n
    /\ IF SizeOk(n)
         THEN /\ pcMain' = "spawning"
              /\ chan' = "open"
              /\ rxRefs' = 1
         ELSE /\ pcMain' = "newPanicked"
              /\ UNCHANGED << chan, rxRefs >>
    /\ UNCHANGED << unwinding, spawned, sender, queue, lock, wpc, msg, thread,
                    joinIdx, joins, nextJob, kind >>
    /\ UNCHANGED histVars
    /\ UNCHANGED << poisoned, otherVars >>

\* One iteration of `for id in 0..size`: Worker::new(id, Arc::clone(&receiver))
\* spawns the thread, which starts at the top of its loop, and the Worker
\* { id, thread: Some(thread) } is pushed.
SpawnWorker ==
    /\ pcMain = "spawning"
    /\ spawned < size
    /\ wpc' = [wpc EXCEPT ![spawned] = "lock"]
    /\ thread' = [thread EXCEPT ![spawned] = "Some"]
    /\ rxRefs' = rxRefs + 1
    /\ spawned' = spawned + 1
    /\ UNCHANGED << pcMain, unwinding, size, sender, chan, queue, lock, msg,
                    joinIdx, joins, nextJob, kind >>
    /\ UNCHANGED histVars
    /\ UNCHANGED << poisoned, otherVars >>

\* The for loop running one iteration short.
NewReturnOneShort ==
    /\ pcMain = "spawning"
    /\ spawned = size - 1
    /\ sender' = "Some"
    /\ rxRefs' = rxRefs - 1
    /\ pcMain' = "running"
    /\ UNCHANGED << unwinding, size, spawned, chan, queue, lock, wpc, msg,
                    thread, joinIdx, joins, nextJob, kind >>
    /\ UNCHANGED histVars
    /\ UNCHANGED << poisoned, otherVars >>

\* ThreadPool { workers, sender: Some(sender) }; the local Arc `receiver`
\* goes out of scope.
NewReturn ==
    /\ pcMain = "spawning"
    /\ spawned = size
    /\ sender' = "Some"
    /\ rxRefs' = rxRefs - 1
    /\ pcMain' = "running"
    /\ UNCHANGED << unwinding, size, spawned, chan, queue, lock, wpc, msg,
                    thread, joinIdx, joins, nextJob, kind >>
    /\ UNCHANGED histVars
    /\ UNCHANGED << poisoned, otherVars >>

(***************************************************************************)
(* The main thread: ThreadPool::execute                                    *)
(***************************************************************************)

\* A send that puts the job at the front of the buffer.
SendFront(q, j) == << j >> \o q

\* Sender::send: the job goes to the back of the channel's buffer.
Send(q, j) == Append(q, j)

\* An execute whose send succeeds with or without a Receiver: the job is
\* buffered all the same.
ExecuteWithoutReceiver(k) ==
    /\ pcMain = "running"
    /\ sender = "Some"
    /\ nextJob <= MaxJobs
    /\ queue' = Append(queue, nextJob)
    /\ kind' = [kind EXCEPT ![nextJob] = k]
    /\ nextJob' = nextJob + 1
    /\ UNCHANGED << pcMain, unwinding >>
    /\ UNCHANGED << size, spawned, sender, chan, rxRefs, lock, wpc, msg,
                    thread, joinIdx, joins >>
    /\ UNCHANGED histVars
    /\ UNCHANGED << poisoned, otherVars >>

\* An execute that hands the job straight to a Worker blocked inside recv
\* when there is one, and buffers it otherwise.
ExecuteHandsOver(k) ==
    /\ pcMain = "running"
    /\ sender = "Some"
    /\ nextJob <= MaxJobs
    /\ rxRefs > 0
    /\ kind' = [kind EXCEPT ![nextJob] = k]
    /\ nextJob' = nextJob + 1
    /\ IF queue = << >> /\ \E w \in Workers : wpc[w] = "recv"
         THEN LET w == CHOOSE w \in Workers : wpc[w] = "recv"
              IN  /\ msg' = [msg EXCEPT ![w] = nextJob]
                  /\ wpc' = [wpc EXCEPT ![w] = "got"]
                  /\ dequeued' = Append(dequeued, nextJob)
                  /\ UNCHANGED queue
         ELSE /\ queue' = Append(queue, nextJob)
              /\ UNCHANGED << msg, wpc, dequeued >>
    /\ UNCHANGED << pcMain, unwinding, size, spawned, sender, chan, rxRefs,
                    lock, thread, joinIdx, joins >>
    /\ UNCHANGED << started, completed, backlog >>
    /\ UNCHANGED << poisoned, otherVars >>

\* An execute that spawns a thread of its own for the job, as the server
\* with one thread per request does, for as long as thread slots remain.
ExecuteSpawnsThread(k) ==
    /\ pcMain = "running"
    /\ sender = "Some"
    /\ nextJob <= MaxJobs
    /\ spawned < MaxSize
    /\ kind' = [kind EXCEPT ![nextJob] = k]
    /\ nextJob' = nextJob + 1
    /\ wpc' = [wpc EXCEPT ![spawned] = "exec"]
    /\ msg' = [msg EXCEPT ![spawned] = nextJob]
    /\ thread' = [thread EXCEPT ![spawned] = "Some"]
    /\ started' = [started EXCEPT ![nextJob] = @ + 1]
    /\ rxRefs' = rxRefs + 1
    /\ spawned' = spawned + 1
    /\ UNCHANGED << pcMain, unwinding, size, sender, chan, queue, lock,
                    joinIdx, joins >>
    /\ UNCHANGED << completed, dequeued, backlog >>
    /\ UNCHANGED << poisoned, otherVars >>

\* An execute over a rendezvous channel: the job is handed over only when a
\* Worker is waiting in recv, and is dropped otherwise.
ExecuteDropsWhenBusy(k) ==
    /\ pcMain = "running"
    /\ sender = "Some"
    /\ nextJob <= MaxJobs
    /\ IF rxRefs > 0
         THEN /\ queue' = IF \E w \in Workers : wpc[w] = "recv"
                             THEN Append(queue, nextJob)
                             ELSE queue
              /\ kind' = [kind EXCEPT ![nextJob] = k]
              /\ nextJob' = nextJob + 1
              /\ UNCHANGED << pcMain, unwinding >>
         ELSE /\ pcMain' = "panicking"
              /\ unwinding' = TRUE
              /\ UNCHANGED << queue, kind, nextJob >>
    /\ UNCHANGED << size, spawned, sender, chan, rxRefs, lock, wpc, msg,
                    thread, joinIdx, joins >>
    /\ UNCHANGED histVars
    /\ UNCHANGED << poisoned, otherVars >>

\* An execute over a channel of capacity one (mpsc::sync_channel(1)): send
\* blocks while a job is buffered.
ExecuteBounded(k) ==
    /\ pcMain = "running"
    /\ sender = "Some"
    /\ nextJob <= MaxJobs
    /\ Len(queue) < 1
    /\ IF rxRefs > 0
         THEN /\ queue' = Append(queue, nextJob)
              /\ kind' = [kind EXCEPT ![nextJob] = k]
              /\ nextJob' = nextJob + 1
              /\ UNCHANGED << pcMain, unwinding >>
         ELSE /\ pcMain' = "panicking"
              /\ unwinding' = TRUE
              /\ UNCHANGED << queue, kind, nextJob >>
    /\ UNCHANGED << size, spawned, sender, chan, rxRefs, lock, wpc, msg,
                    thread, joinIdx, joins >>
    /\ UNCHANGED histVars
    /\ UNCHANGED << poisoned, otherVars >>

\* self.sender.as_ref().unwrap().send(job).unwrap(), the job doing k when it
\* is run. send is Err once the Receiver is gone (no Arc left), and the
\* unwrap then panics in the caller.
Execute(k) ==
    /\ pcMain = "running"
    /\ sender = "Some"
    /\ nextJob <= MaxJobs
    /\ IF rxRefs > 0
         THEN /\ queue' = Send(queue, nextJob)
              /\ kind' = [kind EXCEPT ![nextJob] = k]
              /\ nextJob' = nextJob + 1
              /\ UNCHANGED << pcMain, unwinding >>
         ELSE /\ pcMain' = "panicking"
              /\ unwinding' = TRUE
              /\ UNCHANGED << queue, kind, nextJob >>
    /\ UNCHANGED << size, spawned, sender, chan, rxRefs, lock, wpc, msg,
                    thread, joinIdx, joins >>
    /\ UNCHANGED histVars
    /\ UNCHANGED << poisoned, otherVars >>

(***************************************************************************)
(* The main thread: Drop for ThreadPool                                    *)
(***************************************************************************)

\* A drop that goes straight to joining and keeps the Sender (the Drop of
\* lib.rs lines 209-229).
DropKeepsSender ==
    /\ pcMain \in {"running", "panicking"}
    /\ joinIdx' = 0
    /\ pcMain' = "take"
    /\ backlog' = queue
    /\ UNCHANGED << unwinding, size, spawned, sender, chan, rxRefs, queue,
                    lock, wpc, msg, thread, joins, nextJob, kind >>
    /\ UNCHANGED << started, completed, dequeued >>
    /\ UNCHANGED << poisoned, otherVars >>

\* A drop that cancels the jobs in flight: every Worker that is running a
\* job is stopped where it is.
DropSenderCancels ==
    /\ pcMain \in {"running", "panicking"}
    /\ sender' = "None"
    /\ chan' = "closed"
    /\ joinIdx' = 0
    /\ pcMain' = "take"
    /\ backlog' = queue
    /\ wpc' = [w \in Workers |->
                 IF wpc[w] = "exec" THEN "terminated" ELSE wpc[w]]
    /\ msg' = [w \in Workers |-> IF wpc[w] = "exec" THEN NoJob ELSE msg[w]]
    /\ rxRefs' = rxRefs - Cardinality({w \in Workers : wpc[w] = "exec"})
    /\ UNCHANGED << unwinding, size, spawned, queue, lock, thread, joins,
                    nextJob, kind >>
    /\ UNCHANGED << started, completed, dequeued >>
    /\ UNCHANGED << poisoned, otherVars >>

\* A drop that takes the Sender out of the pool and keeps it in a local that
\* lives to the end of drop (`let _sender = self.sender.take();`).
DropTakesWithoutDropping ==
    /\ pcMain \in {"running", "panicking"}
    /\ sender' = "None"
    /\ joinIdx' = 0
    /\ pcMain' = "take"
    /\ backlog' = queue
    /\ UNCHANGED << unwinding, size, spawned, chan, rxRefs, queue, lock, wpc,
                    msg, thread, joins, nextJob, kind >>
    /\ UNCHANGED << started, completed, dequeued >>
    /\ UNCHANGED << poisoned, otherVars >>

\* drop(self.sender.take()): the only Sender is dropped, which disconnects
\* the channel. The pool is dropped when its owner's scope ends, or while
\* the owner unwinds from a panic in execute.
DropSender ==
    /\ pcMain \in {"running", "panicking"}
    /\ sender' = "None"
    /\ chan' = "closed"
    /\ joinIdx' = 0
    /\ pcMain' = "take"
    /\ backlog' = queue
    /\ UNCHANGED << unwinding, size, spawned, rxRefs, queue, lock, wpc, msg,
                    thread, joins, nextJob, kind >>
    /\ UNCHANGED << started, completed, dequeued >>
    /\ UNCHANGED << poisoned, otherVars >>

\* `if let Some(thread) = worker.thread.take()` for the worker the for loop
\* is at.
TakeThread ==
    /\ pcMain = "take"
    /\ joinIdx < size
    /\ IF thread[joinIdx] = "Some"
         THEN /\ thread' = [thread EXCEPT ![joinIdx] = "None"]
              /\ pcMain' = "join"
              /\ UNCHANGED joinIdx
         ELSE /\ joinIdx' = joinIdx + 1
              /\ UNCHANGED << thread, pcMain >>
    /\ UNCHANGED << unwinding, size, spawned, sender, chan, rxRefs, queue,
                    lock, wpc, msg, joins, nextJob, kind >>
    /\ UNCHANGED histVars
    /\ UNCHANGED << poisoned, otherVars >>

\* A join that does not wait for the thread to end.
JoinThreadNoWait ==
    /\ pcMain = "join"
    /\ joins' = [joins EXCEPT ![joinIdx] = @ + 1]
    /\ IF wpc[joinIdx] # "panicked"
         THEN /\ joinIdx' = joinIdx + 1
              /\ pcMain' = "take"
         ELSE /\ pcMain' = IF unwinding THEN "aborted" ELSE "dropPanicked"
              /\ UNCHANGED joinIdx
    /\ UNCHANGED << unwinding, size, spawned, sender, chan, rxRefs, queue,
                    lock, wpc, msg, thread, nextJob, kind >>
    /\ UNCHANGED histVars
    /\ UNCHANGED << poisoned, otherVars >>

\* A join whose Err is dropped (thread.join().ok()): the loop goes on to the
\* next worker.
JoinThreadIgnoresPanic ==
    /\ pcMain = "join"
    /\ wpc[joinIdx] \in {"terminated", "panicked"}
    /\ joins' = [joins EXCEPT ![joinIdx] = @ + 1]
    /\ joinIdx' = joinIdx + 1
    /\ pcMain' = "take"
    /\ UNCHANGED << unwinding, size, spawned, sender, chan, rxRefs, queue,
                    lock, wpc, msg, thread, nextJob, kind >>
    /\ UNCHANGED histVars
    /\ UNCHANGED << poisoned, otherVars >>

\* A join that gives up on a Worker that is still running a job and moves
\* on to the next Worker.
JoinThreadTimesOut ==
    /\ pcMain = "join"
    /\ wpc[joinIdx] \in {"terminated", "panicked", "exec"}
    /\ joins' = [joins EXCEPT ![joinIdx] = @ + 1]
    /\ IF wpc[joinIdx] # "panicked"
         THEN /\ joinIdx' = joinIdx + 1
              /\ pcMain' = "take"
         ELSE /\ pcMain' = IF unwinding THEN "aborted" ELSE "dropPanicked"
              /\ UNCHANGED joinIdx
    /\ UNCHANGED << unwinding, size, spawned, sender, chan, rxRefs, queue,
                    lock, wpc, msg, thread, nextJob, kind >>
    /\ UNCHANGED histVars
    /\ UNCHANGED << poisoned, otherVars >>

\* thread.join().unwrap(): blocks until the Worker's thread has ended; join
\* is Err when that thread panicked, and the unwrap then panics in drop (a
\* panic while already unwinding aborts the process).
JoinThread ==
    /\ pcMain = "join"
    /\ wpc[joinIdx] \in {"terminated", "panicked"}
    /\ joins' = [joins EXCEPT ![joinIdx] = @ + 1]
    /\ IF wpc[joinIdx] = "terminated"
         THEN /\ joinIdx' = joinIdx + 1
              /\ pcMain' = "take"
         ELSE /\ pcMain' = IF unwinding THEN "aborted" ELSE "dropPanicked"
              /\ UNCHANGED joinIdx
    /\ UNCHANGED << unwinding, size, spawned, sender, chan, rxRefs, queue,
                    lock, wpc, msg, thread, nextJob, kind >>
    /\ UNCHANGED histVars
    /\ UNCHANGED << poisoned, otherVars >>

\* A for loop of drop that leaves out the last worker.
DropReturnOneShort ==
    /\ pcMain = "take"
    /\ joinIdx >= size - 1
    /\ pcMain' = IF unwinding THEN "panicked" ELSE "done"
    /\ UNCHANGED << unwinding, size, spawned, sender, chan, rxRefs, queue,
                    lock, wpc, msg, thread, joinIdx, joins, nextJob, kind >>
    /\ UNCHANGED histVars
    /\ UNCHANGED << poisoned, otherVars >>

\* The for loop of drop is over: drop returns (and an unwinding owner goes
\* on unwinding).
DropReturn ==
    /\ pcMain = "take"
    /\ joinIdx = size
    /\ pcMain' = IF unwinding THEN "panicked" ELSE "done"
    /\ UNCHANGED << unwinding, size, spawned, sender, chan, rxRefs, queue,
                    lock, wpc, msg, thread, joinIdx, joins, nextJob, kind >>
    /\ UNCHANGED histVars
    /\ UNCHANGED << poisoned, otherVars >>

(***************************************************************************)
(* A Worker thread: the closure of Worker::new                             *)
(***************************************************************************)

\* The process has not been aborted.
Alive == pcMain # "aborted"

\* What is left in the channel when a thread gives up its Arc: dropping the
\* last Arc drops the Receiver, which discards the buffered jobs.
AfterArcDrop(q, refs) == IF refs = 1 THEN << >> ELSE q

\* A lock that stays taken while any Worker runs a job (the guard kept alive
\* through job(), as in WorkerII).
AcquireLockSerialized(w) ==
    /\ Alive
    /\ wpc[w] = "lock"
    /\ lock = NoHolder
    /\ \A v \in Workers : wpc[v] # "exec"
    /\ lock' = w
    /\ wpc' = [wpc EXCEPT ![w] = "recv"]
    /\ UNCHANGED << rxRefs, queue, msg, thread, joins, nextJob, kind, chan >>
    /\ UNCHANGED mainVars
    /\ UNCHANGED histVars
    /\ UNCHANGED << poisoned, otherVars >>

\* A thread that starts its loop again after it has ended.
AcquireLockRestarts(w) ==
    /\ Alive
    /\ wpc[w] \in {"lock", "terminated"}
    /\ lock = NoHolder
    /\ ~poisoned
    /\ lock' = w
    /\ wpc' = [wpc EXCEPT ![w] = "recv"]
    /\ UNCHANGED << rxRefs, queue, msg, thread, joins, nextJob, kind, chan >>
    /\ UNCHANGED mainVars
    /\ UNCHANGED histVars
    /\ UNCHANGED << poisoned, otherVars >>

\* A lock() that does not wait for the Mutex to be free.
AcquireLockUnguarded(w) ==
    /\ Alive
    /\ wpc[w] = "lock"
    /\ ~poisoned
    /\ lock' = w
    /\ wpc' = [wpc EXCEPT ![w] = "recv"]
    /\ UNCHANGED << rxRefs, queue, msg, thread, joins, nextJob, kind, chan >>
    /\ UNCHANGED mainVars
    /\ UNCHANGED histVars
    /\ UNCHANGED << poisoned, otherVars >>

\* receiver.lock().unwrap(): blocks until the Mutex is free, and gives the
\* guard when the Mutex is not poisoned.
AcquireLock(w) ==
    /\ Alive
    /\ wpc[w] = "lock"
    /\ lock = NoHolder
    /\ ~poisoned
    /\ lock' = w
    /\ wpc' = [wpc EXCEPT ![w] = "recv"]
    /\ UNCHANGED << rxRefs, queue, msg, thread, joins, nextJob, kind, chan >>
    /\ UNCHANGED mainVars
    /\ UNCHANGED histVars
    /\ UNCHANGED << poisoned, otherVars >>

\* A recv that hands out the head of the buffer and leaves it there.
RecvJobKeepsHead(w) ==
    /\ Alive
    /\ wpc[w] = "recv"
    /\ queue # << >>
    /\ msg' = [msg EXCEPT ![w] = Head(queue)]
    /\ dequeued' = Append(dequeued, Head(queue))
    /\ wpc' = [wpc EXCEPT ![w] = "got"]
    /\ UNCHANGED << rxRefs, queue, lock, thread, joins, nextJob, kind, chan >>
    /\ UNCHANGED mainVars
    /\ UNCHANGED << started, completed, backlog >>
    /\ UNCHANGED << poisoned, otherVars >>

\* .recv() with a job buffered: Ok(job), the job at the head of the buffer.
RecvJob(w) ==
    /\ Alive
    /\ wpc[w] = "recv"
    /\ queue # << >>
    /\ msg' = [msg EXCEPT ![w] = Head(queue)]
    /\ queue' = Tail(queue)
    /\ dequeued' = Append(dequeued, Head(queue))
    /\ wpc' = [wpc EXCEPT ![w] = "got"]
    /\ UNCHANGED << rxRefs, lock, thread, joins, nextJob, kind, chan >>
    /\ UNCHANGED mainVars
    /\ UNCHANGED << started, completed, backlog >>
    /\ UNCHANGED << poisoned, otherVars >>

\* A recv that gives up with Err when nothing is buffered, Sender or not.
RecvGivesUpWhenEmpty(w) ==
    /\ Alive
    /\ wpc[w] = "recv"
    /\ queue = << >>
    /\ msg' = [msg EXCEPT ![w] = Closed]
    /\ wpc' = [wpc EXCEPT ![w] = "got"]
    /\ UNCHANGED << rxRefs, queue, lock, thread, joins, nextJob, kind, chan >>
    /\ UNCHANGED mainVars
    /\ UNCHANGED histVars
    /\ UNCHANGED << poisoned, otherVars >>

\* A recv that reports the channel closed as soon as the Sender is gone,
\* whatever is still buffered.
RecvClosedWhileQueued(w) ==
    /\ Alive
    /\ wpc[w] = "recv"
    /\ chan = "closed"
    /\ msg' = [msg EXCEPT ![w] = Closed]
    /\ wpc' = [wpc EXCEPT ![w] = "got"]
    /\ UNCHANGED << rxRefs, queue, lock, thread, joins, nextJob, kind, chan >>
    /\ UNCHANGED mainVars
    /\ UNCHANGED histVars
    /\ UNCHANGED << poisoned, otherVars >>

\* .recv() with nothing buffered and the Sender dropped: Err(RecvError).
\* With nothing buffered and the Sender alive recv blocks.
RecvClosed(w) ==
    /\ Alive
    /\ wpc[w] = "recv"
    /\ queue = << >>
    /\ chan = "closed"
    /\ msg' = [msg EXCEPT ![w] = Closed]
    /\ wpc' = [wpc EXCEPT ![w] = "got"]
    /\ UNCHANGED << rxRefs, queue, lock, thread, joins, nextJob, kind, chan >>
    /\ UNCHANGED mainVars
    /\ UNCHANGED histVars
    /\ UNCHANGED << poisoned, otherVars >>

\* A guard that outlives the `let message = ...` statement: the Mutex stays
\* locked while job() runs.
ReleaseAndMatchKeepsGuard(w) ==
    /\ Alive
    /\ wpc[w] = "got"
    /\ IF msg[w] = Closed
         THEN /\ wpc' = [wpc EXCEPT ![w] = "terminated"]
              /\ msg' = [msg EXCEPT ![w] = NoJob]
              /\ lock' = NoHolder
              /\ rxRefs' = rxRefs - 1
              /\ queue' = AfterArcDrop(queue, rxRefs)
              /\ UNCHANGED started
         ELSE /\ wpc' = [wpc EXCEPT ![w] = "exec"]
              /\ started' = [started EXCEPT ![msg[w]] = @ + 1]
              /\ UNCHANGED << msg, lock, rxRefs, queue >>
    /\ UNCHANGED << thread, joins, nextJob, kind, chan >>
    /\ UNCHANGED mainVars
    /\ UNCHANGED << completed, dequeued, backlog >>
    /\ UNCHANGED << poisoned, otherVars >>

\* The end of the `let message = ...` statement drops the MutexGuard; then
\* `match message`: Ok(job) calls job(), Err(_) breaks out of the loop, which
\* ends the thread and drops its Arc.
ReleaseAndMatch(w) ==
    /\ Alive
    /\ wpc[w] = "got"
    /\ lock' = NoHolder
    /\ IF msg[w] = Closed
         THEN /\ wpc' = [wpc EXCEPT ![w] = "terminated"]
              /\ msg' = [msg EXCEPT ![w] = NoJob]
              /\ rxRefs' = rxRefs - 1
              /\ queue' = AfterArcDrop(queue, rxRefs)
              /\ UNCHANGED started
         ELSE /\ wpc' = [wpc EXCEPT ![w] = "exec"]
              /\ started' = [started EXCEPT ![msg[w]] = @ + 1]
              /\ UNCHANGED << msg, rxRefs, queue >>
    /\ UNCHANGED << thread, joins, nextJob, kind, chan >>
    /\ UNCHANGED mainVars
    /\ UNCHANGED << completed, dequeued, backlog >>
    /\ UNCHANGED << poisoned, otherVars >>

\* Jobs that come to their end in the order in which they were submitted:
\* a job returns only when every job before it has.
JobReturnsInOrder(w) ==
    /\ Alive
    /\ wpc[w] = "exec"
    /\ kind[msg[w]] = "ok"
    /\ \A i \in Jobs : i < msg[w] => completed[i] = 1
    /\ completed' = [completed EXCEPT ![msg[w]] = @ + 1]
    /\ msg' = [msg EXCEPT ![w] = NoJob]
    /\ wpc' = [wpc EXCEPT ![w] = "lock"]
    /\ UNCHANGED << rxRefs, queue, lock, thread, joins, nextJob, kind, chan >>
    /\ UNCHANGED mainVars
    /\ UNCHANGED << started, dequeued, backlog >>
    /\ UNCHANGED << poisoned, otherVars >>

\* A thread that runs one job and ends instead of looping.
JobReturnsEndsThread(w) ==
    /\ Alive
    /\ wpc[w] = "exec"
    /\ kind[msg[w]] = "ok"
    /\ completed' = [completed EXCEPT ![msg[w]] = @ + 1]
    /\ msg' = [msg EXCEPT ![w] = NoJob]
    /\ wpc' = [wpc EXCEPT ![w] = "terminated"]
    /\ rxRefs' = rxRefs - 1
    /\ queue' = AfterArcDrop(queue, rxRefs)
    /\ UNCHANGED << lock, thread, joins, nextJob, kind, chan >>
    /\ UNCHANGED mainVars
    /\ UNCHANGED << started, dequeued, backlog >>
    /\ UNCHANGED << poisoned, otherVars >>

\* job() returns: the loop goes round.
JobReturns(w) ==
    /\ Alive
    /\ wpc[w] = "exec"
    /\ kind[msg[w]] = "ok"
    /\ completed' = [completed EXCEPT ![msg[w]] = @ + 1]
    /\ msg' = [msg EXCEPT ![w] = NoJob]
    /\ wpc' = [wpc EXCEPT ![w] = "lock"]
    /\ UNCHANGED << rxRefs, queue, lock, thread, joins, nextJob, kind, chan >>
    /\ UNCHANGED mainVars
    /\ UNCHANGED << started, dequeued, backlog >>
    /\ UNCHANGED << poisoned, otherVars >>

\* A panic in job() that is caught at the top of the loop: the Worker goes
\* back to waiting for the next job.
JobPanicsRecovers(w) ==
    /\ Alive
    /\ wpc[w] = "exec"
    /\ kind[msg[w]] = "fault"
    /\ wpc' = [wpc EXCEPT ![w] = "lock"]
    /\ msg' = [msg EXCEPT ![w] = NoJob]
    /\ UNCHANGED << rxRefs, queue, lock, thread, joins, nextJob, kind, chan >>
    /\ UNCHANGED mainVars
    /\ UNCHANGED histVars
    /\ UNCHANGED << poisoned, otherVars >>

\* job() panics: nothing catches it, the thread unwinds and ends, dropping
\* its Arc. A MutexGuard dropped by a panicking thread poisons its Mutex;
\* this thread has none unless it still holds the lock.
JobPanics(w) ==
    /\ Alive
    /\ wpc[w] = "exec"
    /\ kind[msg[w]] = "fault"
    /\ wpc' = [wpc EXCEPT ![w] = "panicked"]
    /\ msg' = [msg EXCEPT ![w] = NoJob]
    /\ rxRefs' = rxRefs - 1
    /\ queue' = AfterArcDrop(queue, rxRefs)
    /\ poisoned' = (poisoned \/ lock = w)
    /\ lock' = IF lock = w THEN NoHolder ELSE lock
    /\ UNCHANGED << thread, joins, nextJob, kind, chan >>
    /\ UNCHANGED mainVars
    /\ UNCHANGED histVars
    /\ UNCHANGED otherVars

(***************************************************************************)
(* Specifications                                                          *)
(***************************************************************************)

WorkerStep(w) ==
    \/ AcquireLock(w)
    \/ RecvJob(w)
    \/ RecvClosed(w)
    \/ ReleaseAndMatch(w)
    \/ JobReturns(w)
    \/ JobPanics(w)

Teardown ==
    \/ TakeThread
    \/ JoinThread
    \/ DropReturn

Next ==
    \/ \E n \in 0 .. MaxSize : NewBegin(n)
    \/ SpawnWorker
    \/ NewReturn
    \/ \E k \in JobKinds : Execute(k)
    \/ DropSender
    \/ Teardown
    \/ \E w \in Workers : WorkerStep(w)

Spec == Init /\ [][Next]_vars

\* Threads that can run do run: each Worker thread and the thread inside
\* drop are scheduled fairly. Nothing obliges the owner to submit or to let
\* the pool go.
FairSpec ==
    /\ Spec
    /\ WF_vars(Teardown)
    /\ \A w \in Workers : WF_vars(WorkerStep(w))

(***************************************************************************)
(* The pool with WorkerII threads:                                         *)
(*   while let Ok(job) = receiver.lock().unwrap().recv() { job(); }        *)
(* The MutexGuard is a temporary of the while let scrutinee and lives      *)
(* until the end of the loop body.                                         *)
(***************************************************************************)

\* A lock() that hands out the guard of a poisoned Mutex as if nothing had
\* happened.
LockPoisonedRecoversII(w) ==
    /\ Alive
    /\ wpc[w] = "lock"
    /\ lock = NoHolder
    /\ poisoned
    /\ lock' = w
    /\ wpc' = [wpc EXCEPT ![w] = "recv"]
    /\ UNCHANGED << rxRefs, queue, msg, thread, joins, nextJob, kind, chan >>
    /\ UNCHANGED mainVars
    /\ UNCHANGED histVars
    /\ UNCHANGED << poisoned, otherVars >>

\* receiver.lock().unwrap() on a poisoned Mutex: lock() returns
\* Err(PoisonError), unwrap panics, the thread unwinds and ends, dropping
\* the guard inside the error and its Arc.
LockPoisonedII(w) ==
    /\ Alive
    /\ wpc[w] = "lock"
    /\ lock = NoHolder
    /\ poisoned
    /\ wpc' = [wpc EXCEPT ![w] = "panicked"]
    /\ rxRefs' = rxRefs - 1
    /\ queue' = AfterArcDrop(queue, rxRefs)
    /\ UNCHANGED << lock, msg, thread, joins, nextJob, kind, chan >>
    /\ UNCHANGED mainVars
    /\ UNCHANGED histVars
    /\ UNCHANGED << poisoned, otherVars >>

\* A while let whose guard is dropped before the body runs.
MatchDropsGuardII(w) ==
    /\ Alive
    /\ wpc[w] = "got"
    /\ lock' = NoHolder
    /\ IF msg[w] = Closed
         THEN /\ wpc' = [wpc EXCEPT ![w] = "terminated"]
              /\ msg' = [msg EXCEPT ![w] = NoJob]
              /\ rxRefs' = rxRefs - 1
              /\ queue' = AfterArcDrop(queue, rxRefs)
              /\ UNCHANGED started
         ELSE /\ wpc' = [wpc EXCEPT ![w] = "exec"]
              /\ started' = [started EXCEPT ![msg[w]] = @ + 1]
              /\ UNCHANGED << msg, rxRefs, queue >>
    /\ UNCHANGED << thread, joins, nextJob, kind, chan >>
    /\ UNCHANGED mainVars
    /\ UNCHANGED << completed, dequeued, backlog >>
    /\ UNCHANGED << poisoned, otherVars >>

\* The while let pattern: Ok(job) enters the body and calls job() with the
\* guard still alive; Err(_) leaves the loop, which drops the guard, ends
\* the thread and drops its Arc.
MatchII(w) ==
    /\ Alive
    /\ wpc[w] = "got"
    /\ IF msg[w] = Closed
         THEN /\ wpc' = [wpc EXCEPT ![w] = "terminated"]
              /\ msg' = [msg EXCEPT ![w] = NoJob]
              /\ lock' = NoHolder
              /\ rxRefs' = rxRefs - 1
              /\ queue' = AfterArcDrop(queue, rxRefs)
              /\ UNCHANGED started
         ELSE /\ wpc' = [wpc EXCEPT ![w] = "exec"]
              /\ started' = [started EXCEPT ![msg[w]] = @ + 1]
              /\ UNCHANGED << msg, lock, rxRefs, queue >>
    /\ UNCHANGED << thread, joins, nextJob, kind, chan >>
    /\ UNCHANGED mainVars
    /\ UNCHANGED << completed, dequeued, backlog >>
    /\ UNCHANGED << poisoned, otherVars >>

\* job() returns: the loop body ends, which drops the guard, and the loop
\* goes round.
JobReturnsII(w) ==
    /\ Alive
    /\ wpc[w] = "exec"
    /\ kind[msg[w]] = "ok"
    /\ completed' = [completed EXCEPT ![msg[w]] = @ + 1]
    /\ msg' = [msg EXCEPT ![w] = NoJob]
    /\ lock' = NoHolder
    /\ wpc' = [wpc EXCEPT ![w] = "lock"]
    /\ UNCHANGED << rxRefs, queue, thread, joins, nextJob, kind, chan >>
    /\ UNCHANGED mainVars
    /\ UNCHANGED << started, dequeued, backlog >>
    /\ UNCHANGED << poisoned, otherVars >>

\* job() panics: the unwinding thread drops the guard, which poisons the
\* Mutex, and ends, dropping its Arc.
JobPanicsII(w) ==
    /\ Alive
    /\ wpc[w] = "exec"
    /\ kind[msg[w]] = "fault"
    /\ poisoned' = TRUE
    /\ lock' = NoHolder
    /\ wpc' = [wpc EXCEPT ![w] = "panicked"]
    /\ msg' = [msg EXCEPT ![w] = NoJob]
    /\ rxRefs' = rxRefs - 1
    /\ queue' = AfterArcDrop(queue, rxRefs)
    /\ UNCHANGED << thread, joins, nextJob, kind, chan >>
    /\ UNCHANGED mainVars
    /\ UNCHANGED histVars
    /\ UNCHANGED otherVars

WorkerStepII(w) ==
    \/ AcquireLock(w)
    \/ LockPoisonedII(w)
    \/ RecvJob(w)
    \/ RecvClosed(w)
    \/ MatchII(w)
    \/ JobReturnsII(w)
    \/ JobPanicsII(w)

NextII ==
    \/ \E n \in 0 .. MaxSize : NewBegin(n)
    \/ SpawnWorker
    \/ NewReturn
    \/ \E k \in JobKinds : Execute(k)
    \/ DropSender
    \/ Teardown
    \/ \E w \in Workers : WorkerStepII(w)

SpecII == Init /\ [][NextII]_vars

(***************************************************************************)
(* minigrep: search(query, contents), with the for loop (minigrep) and     *)
(* with the iterator adaptors (minigrep_iter). A str is the sequence of    *)
(* its chars; "LF" and "CR" stand for '\n' and '\r'.                        *)
(***************************************************************************)

Chars == {"d", "D", "LF", "CR"}

SeqsUpTo(S, n) == UNION {[1 .. k -> S] : k \in 0 .. n}

\* A line that ended in '\n' loses a '\r' just before it.
StripCR(line) ==
    IF line # << >> /\ line[Len(line)] = "CR"
      THEN SubSeq(line, 1, Len(line) - 1)
      ELSE line

\* str::lines(): the text is cut after every '\n'; a piece loses its '\n' and
\* then a '\r' before it; what follows the last '\n' is a line when it is
\* not empty. `cur` is the piece being read.
RECURSIVE LinesFrom(_, _)
LinesFrom(text, cur) ==
    IF text = << >>
      THEN IF cur = << >> THEN << >> ELSE << cur >>
      ELSE IF Head(text) = "LF"
             THEN << StripCR(cur) >> \o LinesFrom(Tail(text), << >>)
             ELSE LinesFrom(Tail(text), Append(cur, Head(text)))

Lines(text) == LinesFrom(text, << >>)

ToLower(ch) == IF ch = "D" THEN "d" ELSE ch

\* A contains that takes no account of case.
RECURSIVE ContainsIgnoringCase(_, _)
ContainsIgnoringCase(line, q) ==
    IF /\ Len(q) <= Len(line)
       /\ \A k \in 1 .. Len(q) : ToLower(line[k]) = ToLower(q[k])
      THEN TRUE
      ELSE IF line = << >>
             THEN FALSE
             ELSE ContainsIgnoringCase(Tail(line), q)

\* line.contains(query): query is found at the start of line or of one of
\* its suffixes, char for char.
RECURSIVE Contains(_, _)
Contains(line, q) ==
    IF Len(q) <= Len(line) /\ SubSeq(line, 1, Len(q)) = q
      THEN TRUE
      ELSE IF line = << >>
             THEN FALSE
             ELSE Contains(Tail(line), q)

\* A caller picks the two arguments.
GrepInit ==
    /\ query \in SeqsUpTo(Chars, MaxQuery)
    /\ contents \in SeqsUpTo(Chars, MaxContents)
    /\ grepPc = "call"
    /\ lineIdx = 0
    /\ res = << >>
    /\ iterRes = << >>

\* minigrep::search is entered: `let mut res = Vec::new()` and the for loop
\* is at the first line.
SearchBegin ==
    /\ grepPc = "call"
    /\ res' = << >>
    /\ lineIdx' = 0
    /\ grepPc' = "loop"
    /\ UNCHANGED << query, contents, iterRes >>
    /\ UNCHANGED << poolVars, trackerVars, postVars >>

\* One iteration of `for line in contents.lines()`: the line is pushed when
\* it contains query.
SearchLine ==
    /\ grepPc = "loop"
    /\ lineIdx < Len(Lines(contents))
    /\ LET line == Lines(contents)[lineIdx + 1]
       IN  res' = IF Contains(line, query) THEN Append(res, line) ELSE res
    /\ lineIdx' = lineIdx + 1
    /\ UNCHANGED << query, contents, grepPc, iterRes >>
    /\ UNCHANGED << poolVars, trackerVars, postVars >>

\* lines() is exhausted: search returns res.
SearchReturn ==
    /\ grepPc = "loop"
    /\ lineIdx = Len(Lines(contents))
    /\ grepPc' = "returned"
    /\ UNCHANGED << query, contents, lineIdx, res, iterRes >>
    /\ UNCHANGED << poolVars, trackerVars, postVars >>

\* minigrep_iter::search on the same arguments:
\* contents.lines().filter(|line| line.contains(query)).collect()
SearchIter ==
    /\ grepPc = "returned"
    /\ LET Keeps(line) == Contains(line, query)
       IN  iterRes' = SelectSeq(Lines(contents), Keeps)
    /\ grepPc' = "done"
    /\ UNCHANGED << query, contents, lineIdx, res >>
    /\ UNCHANGED << poolVars, trackerVars, postVars >>

NextGrep ==
    \/ SearchBegin
    \/ SearchLine
    \/ SearchReturn
    \/ SearchIter

InitGrep == PoolInit /\ TrackerIdle /\ PostIdle /\ GrepInit

SpecGrep == InitGrep /\ [][NextGrep]_vars

(***************************************************************************)
(* LimitTracker with the test's MockMessenger, which keeps what it is told *)
(* to send in sent_messages.                                               *)
(***************************************************************************)

\* The arguments of the test: LimitTracker::new(&mock_messenger, 100) and
\* set_value(80).
TestMax == 100
TestValue == 80

Quotas == (0 .. MaxQuota) \cup {TestMax}
Values == (0 .. MaxQuota + 1) \cup {TestValue}

OverQuota == "Error: You are over your quota!"
Over90 == "Urgent warning: You've used up over 90% of your quota!"
Over75 == "Warning: You've used up over 75% of your quota!"

\* `self.value as f64 / self.max as f64 >= t` for the literal t = n / d.
\* With max > 0 and operands this small the f64 quotient compares with 1.0,
\* 0.9 and 0.75 as the exact quotient does (value / max = 9 / 10 rounds to
\* the f64 that the literal 0.9 is); x / 0 is +inf for x > 0, which is >= t,
\* and 0 / 0 is NaN, which is >= nothing.
RatioAtLeast(v, m, n, d) ==
    IF m = 0 THEN v > 0 ELSE v * d >= n * m

\* Nothing has been made yet.
TrackerInit ==
    /\ trackerPc = "start"
    /\ max = 0
    /\ value = 0
    /\ sentMessages = << >>
    /\ calls = 0

\* MockMessenger::new() and LimitTracker::new(&mock_messenger, m).
NewTracker(m) ==
    /\ trackerPc = "start"
    /\ sentMessages' = << >>
    /\ max' = m
    /\ value' = 0
    /\ trackerPc' = "ready"
    /\ UNCHANGED calls
    /\ UNCHANGED << poolVars, grepVars, postVars >>

\* A set_value that looks at the lowest threshold first.
SetValueLowestFirst(v) ==
    /\ trackerPc = "ready"
    /\ calls < MaxCalls
    /\ value' = v
    /\ sentMessages' =
          IF RatioAtLeast(v, max, 3, 4)
            THEN Append(sentMessages, Over75)
            ELSE IF RatioAtLeast(v, max, 9, 10)
                   THEN Append(sentMessages, Over90)
                   ELSE IF RatioAtLeast(v, max, 1, 1)
                          THEN Append(sentMessages, OverQuota)
                          ELSE sentMessages
    /\ calls' = calls + 1
    /\ UNCHANGED << trackerPc, max >>
    /\ UNCHANGED << poolVars, grepVars, postVars >>

\* limit_tracker.set_value(v): the value is stored and the if chain sends
\* through the messenger, whose send pushes onto sent_messages.
SetValue(v) ==
    /\ trackerPc = "ready"
    /\ calls < MaxCalls
    /\ value' = v
    /\ sentMessages' =
          IF RatioAtLeast(v, max, 1, 1)
            THEN Append(sentMessages, OverQuota)
            ELSE IF RatioAtLeast(v, max, 9, 10)
                   THEN Append(sentMessages, Over90)
                   ELSE IF RatioAtLeast(v, max, 3, 4)
                          THEN Append(sentMessages, Over75)
                          ELSE sentMessages
    /\ calls' = calls + 1
    /\ UNCHANGED << trackerPc, max >>
    /\ UNCHANGED << poolVars, grepVars, postVars >>

NextTracker ==
    \/ \E m \in Quotas : NewTracker(m)
    \/ \E v \in Values : SetValue(v)

InitTracker == PoolInit /\ GrepIdle /\ PostIdle /\ TrackerInit

SpecTracker == InitTracker /\ [][NextTracker]_vars

(***************************************************************************)
(* oop: the blog Post of the state pattern. Post.state holds one of the    *)
(* State objects Draft, PendingReview, Published, named here by its type;  *)
(* a str is the sequence of its chars.                                     *)
(***************************************************************************)

\* What a caller passes to add_text.
Texts == {<< >>, << "a" >>, << "b" >>}

\* A Draft that approve publishes at once.
ApproveOfPublishesDraft(s) ==
    IF s \in {"Draft", "PendingReview"} THEN "Published" ELSE s

\* A content that every State object answers with the post's content.
ContentOfAnyState(s, text) == text

\* State::request_review(self: Box<Self>): Draft gives a new PendingReview,
\* PendingReview and Published give self.
RequestReviewOf(s) == IF s = "Draft" THEN "PendingReview" ELSE s

\* State::approve(self: Box<Self>): PendingReview gives a new Published,
\* Draft and Published give self.
ApproveOf(s) == IF s = "PendingReview" THEN "Published" ELSE s

\* State::content(&self, post): the default of the trait is "", which Draft
\* and PendingReview keep; Published overrides it with &post.content.
ContentOf(s, text) == IF s = "Published" THEN text ELSE << >>

\* Post::new(): state Some(Box::new(Draft {})), content String::new().
PostInit ==
    /\ state = "Draft"
    /\ content = << >>
    /\ lastCall = "new"
    /\ returned = << >>
    /\ added = << >>
    /\ postCalls = 0

\* post.add_text(text): self.content.push_str(text).
AddText(text) ==
    /\ state # "NoPost"
    /\ postCalls < MaxPostCalls
    /\ content' = content \o text
    /\ added' = Append(added, text)
    /\ lastCall' = "add_text"
    /\ postCalls' = postCalls + 1
    /\ UNCHANGED << state, returned >>
    /\ UNCHANGED << poolVars, grepVars, trackerVars >>

\* post.request_review(): the state is taken out of the Option, consumed by
\* its request_review, and what that returns is put back.
RequestReview ==
    /\ state # "NoPost"
    /\ postCalls < MaxPostCalls
    /\ state' = RequestReviewOf(state)
    /\ lastCall' = "request_review"
    /\ postCalls' = postCalls + 1
    /\ UNCHANGED << content, returned, added >>
    /\ UNCHANGED << poolVars, grepVars, trackerVars >>

\* post.approve(): as request_review, with the state's approve.
Approve ==
    /\ state # "NoPost"
    /\ postCalls < MaxPostCalls
    /\ state' = ApproveOf(state)
    /\ lastCall' = "approve"
    /\ postCalls' = postCalls + 1
    /\ UNCHANGED << content, returned, added >>
    /\ UNCHANGED << poolVars, grepVars, trackerVars >>

\* post.content(): self.state.as_ref().unwrap().content(self).
Content ==
    /\ state # "NoPost"
    /\ postCalls < MaxPostCalls
    /\ returned' = ContentOf(state, content)
    /\ lastCall' = "content"
    /\ postCalls' = postCalls + 1
    /\ UNCHANGED << state, content, added >>
    /\ UNCHANGED << poolVars, grepVars, trackerVars >>

NextPost ==
    \/ \E text \in Texts : AddText(text)
    \/ RequestReview
    \/ Approve
    \/ Content

InitPost == PoolInit /\ GrepIdle /\ TrackerIdle /\ PostInit

SpecPost == InitPost /\ [][NextPost]_vars

(***************************************************************************)
(* Properties                                                              *)
(***************************************************************************)

Range(q) == {q[i] : i \in DOMAIN q}
Pool == 0 .. (size - 1)
Submitted == 1 .. (nextJob - 1)
Holding(w) == msg[w] \in Jobs
WaitingForJob(w) == wpc[w] \in {"lock", "recv", "got"}
Executing(w) == wpc[w] = "exec"
Terminated(w) == wpc[w] = "terminated"
Ended(w) == wpc[w] \in {"terminated", "panicked"}

\* C1: no job is executed more than once, no two Workers hold or execute the
\* same job, and a job handed out by recv is handed out once and is no
\* longer in the queue.
C1_ExactlyOneWorkerPerJob ==
    /\ \A j \in Jobs : started[j] <= 1
    /\ \A v, w \in Workers : (v # w /\ Holding(v)) => msg[v] # msg[w]
    /\ \A i, k \in DOMAIN dequeued : i # k => dequeued[i] # dequeued[k]
    /\ \A j \in Range(dequeued) : j \notin Range(queue)

\* Two Workers each have a job in hand, one running it and one about to,
\* while a third job waits in the queue.
C1_Witness ==
    \E v, w \in Pool :
        /\ Executing(v) /\ started[msg[v]] = 1
        /\ wpc[w] = "got" /\ Holding(w)
        /\ queue # << >>

\* C2: when teardown returns, every job submitted before it has been run to
\* completion, exactly once.
C2_TeardownDrainsBacklog ==
    pcMain = "done" => \A j \in Submitted : started[j] = 1 /\ completed[j] = 1

\* Teardown has returned for a pool of two Workers that was given more jobs
\* than it has Workers, some of them still buffered when teardown began.
C2_Witness ==
    /\ pcMain = "done"
    /\ size = 2
    /\ Cardinality(Submitted) > size
    /\ backlog # << >>

\* Teardown has given up the Sender and every submitted job returns when run.
TeardownBegunAllJobsReturn ==
    /\ pcMain \in {"take", "join"}
    /\ \A j \in Submitted : kind[j] = "ok"

TeardownReturned ==
    /\ pcMain = "done"
    /\ \A w \in Pool : Terminated(w)

\* C3: under fair scheduling, once teardown has given up the Sender and all
\* jobs return, every Worker terminates and teardown returns.
C3_TeardownTerminates == TeardownBegunAllJobsReturn ~> TeardownReturned

\* Teardown is waiting in join with one Worker blocked in recv holding the
\* lock and another waiting for the lock.
C3_Witness ==
    /\ TeardownBegunAllJobsReturn
    /\ pcMain = "join"
    /\ \E v, w \in Pool : wpc[v] = "recv" /\ lock = v /\ wpc[w] = "lock"

\* C4: no thread is joined twice, and when teardown returns every Worker of
\* the pool is Terminated with its handle taken and joined once.
C4_TeardownJoinsEveryWorkerOnce ==
    /\ \A w \in Workers : joins[w] <= 1
    /\ pcMain = "done" =>
          \A w \in Pool : Terminated(w) /\ thread[w] = "None" /\ joins[w] = 1

\* Teardown has returned for a pool of at least two Workers.
C4_Witness ==
    /\ pcMain = "done"
    /\ size >= 2
    /\ \A w \in Pool : joins[w] = 1

\* A step of execute.
ExecuteStep == \E k \in JobKinds : Execute(k)

\* The step enqueued the job at the back and execute returned.
Enqueued ==
    /\ queue' = Append(queue, nextJob)
    /\ nextJob' = nextJob + 1
    /\ pcMain' = "running"
    /\ ~unwinding'

\* C5 as stated: while the Sender is there, every execute enqueues its job
\* and returns, whatever happened before.
C5_SubmitAlwaysSucceeds == [][ExecuteStep => Enqueued]_vars

\* C5 amended: while the Sender is there and some Worker thread has not
\* ended, every execute enqueues its job and returns.
C5_SubmitSucceedsWhileAWorkerLives ==
    [][(ExecuteStep /\ \E w \in Pool : ~Ended(w)) => Enqueued]_vars

\* A job is buffered in a running pool in which one Worker's thread has
\* panicked and another is alive.
C5_Witness ==
    /\ pcMain = "running"
    /\ \E v, w \in Pool : wpc[v] = "panicked" /\ ~Ended(w)
    /\ \E j \in Range(queue) : j > Len(dequeued) + 1

\* C6: before teardown execute never waits for a Worker: it can always take
\* its step, whatever the Workers are doing and however long the queue is.
C6_SubmitNeverBlocks ==
    (pcMain = "running" /\ nextJob <= MaxJobs) => ENABLED ExecuteStep

\* execute can run with every Worker of a pool of two Executing.
C6_Witness ==
    /\ pcMain = "running"
    /\ nextJob <= MaxJobs
    /\ size >= 2
    /\ \A w \in Pool : Executing(w)
    /\ ENABLED ExecuteStep

\* The pool as ThreadPool::new returns it.
FreshPool ==
    /\ size > 0
    /\ spawned = size
    /\ \A w \in Workers :
          IF w \in Pool
            THEN wpc[w] \in {"lock", "recv"} /\ thread[w] = "Some"
            ELSE wpc[w] = "unborn" /\ thread[w] = "None"
    /\ rxRefs = size
    /\ chan = "open"
    /\ queue = << >>
    /\ sender = "Some"

\* C7: when new returns, the pool has exactly size Workers, all alive and
\* waiting for a job, sharing the receiver of an empty open channel, and
\* holds the Sender.
C7_NewYieldsSizeWorkers ==
    [][(pcMain = "spawning" /\ pcMain' = "running") => FreshPool']_vars

\* new has returned a pool of the largest size, one Worker already in recv.
C7_Witness ==
    /\ pcMain = "running"
    /\ nextJob = 1
    /\ size = MaxSize
    /\ \E w \in Pool : wpc[w] = "recv"

\* C8: new(0) panics at once: nothing is created, and no pool without
\* Workers ever holds a Sender or accepts a job.
C8_NewZeroFails ==
    /\ (pcMain # "start" /\ size = 0) =>
          /\ pcMain = "newPanicked"
          /\ sender = "NoPool"
          /\ chan = "absent"
          /\ rxRefs = 0
          /\ queue = << >>
          /\ \A w \in Workers : wpc[w] = "unborn" /\ thread[w] = "None"
    /\ size = 0 => ~ENABLED ExecuteStep
    /\ sender = "Some" => size > 0

\* new(0) has panicked.
C8_Witness == pcMain = "newPanicked" /\ size = 0

\* C9: jobs leave the channel in the order execute put them in (job ids
\* count the execute calls).
C9_FifoDelivery ==
    /\ \A i \in DOMAIN dequeued : dequeued[i] = i
    /\ \A i \in DOMAIN queue : queue[i] = Len(dequeued) + i

\* Three jobs have been handed out, the last two to different Workers.
C9_Witness ==
    /\ Len(dequeued) >= 3
    /\ \E v, w \in Pool : v # w /\ msg[v] = 2 /\ msg[w] = 3

\* The first two jobs submitted to a pool of at least two Workers never
\* return.
TwoLongJobs ==
    /\ size >= 2
    /\ nextJob > 2
    /\ kind[1] = "hang" /\ kind[2] = "hang"

TwoExecuting ==
    \E v, w \in Pool :
        v # w /\ Executing(v) /\ Executing(w) /\ msg[v] # msg[w]

\* C10: under fair scheduling, two jobs that do not return, submitted to a
\* pool of at least two Workers, come to be executed at the same time by two
\* different Workers.
C10_JobsRunConcurrently == TwoLongJobs ~> TwoExecuting

\* Two Workers are executing two jobs at once.
C10_Witness ==
    /\ TwoExecuting
    /\ \A j \in Submitted : kind[j] = "ok"

\* drop has been entered: the pool is being torn down, or has been.
TeardownBegun ==
    pcMain \in {"take", "join", "done", "dropPanicked", "aborted", "panicked"}

\* C11: once teardown has begun the pool's Sender is None and the channel
\* closed, both for good, and from then on no step submits a job or adds
\* one to the queue.
C11_TeardownIsTerminal ==
    [][ /\ TeardownBegun' => (sender' = "None" /\ chan' = "closed")
        /\ sender = "None" => sender' = "None"
        /\ chan = "closed" => chan' = "closed"
        /\ TeardownBegun =>
              /\ TeardownBegun'
              /\ ~ExecuteStep
              /\ nextJob' = nextJob
              /\ Len(queue') <= Len(queue)
              /\ Range(queue') \subseteq Range(queue) ]_vars

\* Teardown has returned although the owner could have submitted more.
C11_Witness ==
    /\ pcMain = "done"
    /\ nextJob <= MaxJobs
    /\ sender = "None"
    /\ chan = "closed"

\* A step leaves a Worker that is running a job in the job, or takes it out
\* of the job because the job returned or panicked; never to Terminated.
JobRunsOn(w) ==
    Executing(w) =>
        \/ wpc'[w] = "exec" /\ msg'[w] = msg[w]
        \/ /\ wpc'[w] = "lock"
           /\ kind[msg[w]] = "ok"
           /\ completed'[msg[w]] = completed[msg[w]] + 1
        \/ wpc'[w] = "panicked" /\ kind[msg[w]] = "fault"

\* C12: a dequeued job is never cut short, and under fair scheduling there
\* comes a point from which every dequeued job that returns when run has
\* been run to completion, whether or not teardown began meanwhile.
C12_ShutdownNeverInterrupts ==
    /\ [][\A w \in Workers : JobRunsOn(w)]_vars
    /\ <>[](\A j \in Jobs :
              (j \in Range(dequeued) /\ kind[j] = "ok") => completed[j] = 1)

\* drop has dropped the Sender and waits in the join of a Worker that is
\* still running a job that returns.
C12_Witness ==
    /\ pcMain = "join"
    /\ sender = "None"
    /\ Executing(joinIdx)
    /\ kind[msg[joinIdx]] = "ok"

\* The Workers whose thread is running its loop.
LiveWorkers == {w \in Workers : wpc[w] \in {"lock", "recv", "got", "exec"}}

\* C13: a job that faults ends the thread of the Worker running it and of
\* no other Worker; nothing is spawned in its place, so the number of live
\* Workers drops by exactly one in that step, a dead thread stays dead and
\* once new has returned the number of live Workers never increases.
C13_FaultKillsOnlyItsWorker ==
    [][ /\ \A w \in Workers :
             (Executing(w) /\ kind[msg[w]] = "fault") =>
                 \/ wpc'[w] = "exec" /\ msg'[w] = msg[w]
                 \/ /\ wpc'[w] = "panicked"
                    /\ \A v \in Workers \ {w} : wpc'[v] = wpc[v]
                    /\ Cardinality(LiveWorkers') = Cardinality(LiveWorkers) - 1
                    /\ spawned' = spawned
                    /\ thread' = thread
        /\ \A w \in Workers :
             wpc[w] \in {"panicked", "terminated"} => wpc'[w] = wpc[w]
        /\ pcMain \notin {"start", "spawning"} =>
             /\ Cardinality(LiveWorkers') <= Cardinality(LiveWorkers)
             /\ spawned' = spawned ]_vars

\* One Worker's thread has ended in a fault while the pool is in use and
\* the other Worker is still live.
C13_Witness ==
    /\ pcMain = "running"
    /\ size = 2
    /\ \E w \in Pool : wpc[w] = "panicked"
    /\ Cardinality(LiveWorkers) = 1

\* C14 as stated: whenever a Worker stops executing a job, however the job
\* ended, the Worker is back in WaitingForJob.
C14_JobEndReturnsToWaiting ==
    [][\A w \in Workers :
          (Executing(w) /\ ~Executing(w)') => WaitingForJob(w)']_vars

\* C14 amended: when a job returns, its Worker moves from Executing back to
\* WaitingForJob, at the top of its loop; when a job panics, its Worker's
\* thread ends instead and never waits for a job again.
C14_JobReturnLoopsJobPanicEnds ==
    [][\A w \in Workers :
          (Executing(w) /\ ~Executing(w)') =>
              IF kind[msg[w]] = "ok"
              THEN /\ wpc'[w] = "lock"
                   /\ completed'[msg[w]] = completed[msg[w]] + 1
              ELSE /\ kind[msg[w]] = "fault"
                   /\ wpc'[w] = "panicked"
                   /\ completed' = completed]_vars

\* One Worker has run a job to its end and is waiting for the next, and
\* the other Worker's thread has ended in its job's panic.
C14_Witness ==
    /\ \E w \in Pool : WaitingForJob(w) /\ \E j \in Jobs :
          /\ completed[j] = 1
          /\ \A v \in Pool : msg[v] # j
    /\ \E w \in Pool : wpc[w] = "panicked"
    /\ \E j \in Submitted : kind[j] = "fault" /\ started[j] = 1

\* C15: the Mutex is poisoned exactly by a Worker whose job panics while it
\* holds the guard; from then on the Mutex stays poisoned, no Worker gets
\* the guard or receives a job, and the next step of every Worker that
\* tries to lock is the end of its thread in a panic.
C15_PoisonIsFatal ==
    [][ /\ poisoned' /\ ~poisoned =>
              \E w \in Workers :
                  lock = w /\ Executing(w) /\ wpc'[w] = "panicked"
        /\ \A w \in Workers :
              (lock = w /\ Executing(w) /\ wpc'[w] = "panicked") => poisoned'
        /\ poisoned =>
              /\ poisoned'
              /\ lock = NoHolder /\ lock' = NoHolder
              /\ dequeued' = dequeued
              /\ started' = started
              /\ \A w \in Pool :
                    /\ wpc[w] \in {"lock", "panicked", "terminated"}
                    /\ wpc'[w] \in {wpc[w], "panicked"} ]_vars

\* A Worker's job has panicked under the guard, a second Worker has failed
\* on lock() since, and a job is left in the channel that nobody received.
C15_Witness ==
    /\ poisoned
    /\ size = 2
    /\ \A w \in Pool : wpc[w] = "panicked"
    /\ Len(dequeued) = 1
    /\ nextJob > 2

\* The Worker is inside a job that never returns.
Hanging(w) == Executing(w) /\ kind[msg[w]] = "hang"

\* The jobs submitted before j that take a Worker away for good.
StuckBefore(j) == {i \in Submitted : i < j /\ kind[i] # "ok"}

\* C16: a Worker that is running a job does not hold the Mutex, so a job
\* that never returns keeps only its own Worker; under fair scheduling
\* there comes a point from which every submitted job has been called,
\* as long as fewer jobs before it keep their Worker than the pool has
\* Workers.
C16_BlockedJobBlocksOnlyItsWorker ==
    /\ [](\A w \in Workers : Executing(w) => lock # w)
    /\ <>[](\A j \in Jobs :
              (j \in Submitted /\ Cardinality(StuckBefore(j)) < size)
                  => started[j] = 1)

\* One Worker sits in a job that never returns and a job submitted after
\* that one has been run to its end by the other Worker.
C16_Witness ==
    \E w \in Pool : \E j \in Submitted :
        /\ Hanging(w)
        /\ j > msg[w]
        /\ completed[j] = 1

C18_CompletionOrderNotGuaranteed ==
    /\ [](\A v, w \in Workers :
            (/\ v # w
             /\ Executing(v) /\ kind[msg[v]] = "ok"
             /\ Executing(w) /\ kind[msg[w]] = "ok")
                => (ENABLED JobReturns(v)) /\ (ENABLED JobReturns(w)))
    /\ (size >= 2 /\ 2 \in Submitted /\ kind[1] = "hang" /\ kind[2] = "ok")
          ~> (completed[2] = 1 /\ completed[1] = 0)
    /\ (size >= 2 /\ 2 \in Submitted /\ kind[1] = "ok" /\ kind[2] = "hang")
          ~> (completed[1] = 1 /\ completed[2] = 0)

\* Two jobs that both return were running at once and the one submitted
\* later has finished first.
C18_Witness ==
    /\ kind[1] = "ok" /\ kind[2] = "ok"
    /\ 2 \in Range(dequeued)
    /\ started[1] = 1 /\ completed[1] = 0
    /\ completed[2] = 1

\* Where the lines of a text begin: at its first char and after every '\n'.
LineStarts(text) == {i \in 1 .. Len(text) : i = 1 \/ text[i - 1] = "LF"}

\* The line of the text that begins at i: the chars up to the next '\n' or
\* the end of the text, without the '\r' of a line that ends in "\r\n".
LineAt(text, i) ==
    LET e == CHOOSE e \in i .. Len(text) + 1 :
                 /\ e = Len(text) + 1 \/ text[e] = "LF"
                 /\ \A k \in i .. e - 1 : text[k] # "LF"
        last == IF e <= Len(text) /\ e > i /\ text[e - 1] = "CR"
                  THEN e - 2
                  ELSE e - 1
    IN  [k \in 1 .. (last - i + 1) |-> text[i + k - 1]]

\* q occurs in line, char for char, at some offset.
IsSubstring(q, line) ==
    \E off \in 0 .. Len(line) - Len(q) :
        \A k \in 1 .. Len(q) : line[off + k] = q[k]

\* The lines of text that have q as a substring, in the order in which they
\* stand in text.
MatchingLines(q, text) ==
    LET at == {i \in LineStarts(text) : IsSubstring(q, LineAt(text, i))}
        Nth(n) == CHOOSE i \in at : Cardinality({m \in at : m < i}) = n - 1
    IN  [n \in 1 .. Cardinality(at) |-> LineAt(text, Nth(n))]

\* C19: search returns exactly the lines of contents that have query as a
\* substring, case and all, in the order of contents, and the for loop and
\* the iterator chain return the same.
C19_SearchReturnsMatchingLines ==
    /\ grepPc \in {"returned", "done"} => res = MatchingLines(query, contents)
    /\ grepPc = "done" => iterRes = res

\* Both searches have returned the one line with "d" out of two lines of
\* which the other reads "D".
C19_Witness ==
    /\ grepPc = "done"
    /\ query = << "d" >>
    /\ contents = << "D", "LF", "D", "d" >>
    /\ res = << << "D", "d" >> >>
    /\ iterRes = << << "D", "d" >> >>

\* The thresholds, in percent of max, that v has reached.
Reached(v, m) == {p \in {75, 90, 100} : 100 * v >= p * m}

\* The message that goes with a threshold.
MessageAt(p) ==
    CASE p = 100 -> OverQuota
      [] p = 90 -> Over90
      [] p = 75 -> Over75

\* C20: a call of set_value stores the value and sends nothing when the
\* value is below 75% of max, and otherwise exactly one message, the one of
\* the highest threshold the value has reached; with a max of 0 it sends
\* at most one message.
C20_SetValueSendsHighestThreshold ==
    [][calls' # calls =>
          /\ max' = max
          /\ IF max > 0
               THEN LET reached == Reached(value', max)
                        top == CHOOSE p \in reached : \A r \in reached : r <= p
                    IN  sentMessages' =
                            IF reached = {}
                              THEN sentMessages
                              ELSE Append(sentMessages, MessageAt(top))
               ELSE \/ sentMessages' = sentMessages
                    \/ \E text \in {OverQuota, Over90, Over75} :
                          sentMessages' = Append(sentMessages, text) ]_vars

\* The test: max is 100, set_value(80) has been called once and the
\* messenger holds one message, the 75% warning.
C20_Witness ==
    /\ max = TestMax
    /\ value = TestValue
    /\ calls = 1
    /\ sentMessages = << Over75 >>

\* C21: the Mutex is held only by a Worker that is in the statement
\* `let message = receiver.lock().unwrap().recv()`, between the lock and the
\* end of the statement; a Worker that is running a job does not hold it.
C21_LockHeldOnlyDuringReceive ==
    \A w \in Workers :
        /\ lock = w => wpc[w] \in {"recv", "got"}
        /\ Executing(w) => lock # w
        /\ wpc[w] \in {"recv", "got"} => lock = w

\* One Worker is running a job while another holds the Mutex and is inside
\* recv.
C21_Witness ==
    \E v, w \in Pool :
        /\ v # w
        /\ Executing(v)
        /\ lock = w
        /\ wpc[w] = "recv"

\* The Workers that are past lock() and have not yet dropped the guard: in
\* recv, or holding what recv returned.
InReceive == {w \in Workers : wpc[w] \in {"recv", "got"}}

\* C22: at most one Worker at a time is inside the receive, and it is the
\* one that holds the Mutex; every other live Worker that is not running a
\* job waits for the Mutex; and recv hands out a job only to the Worker
\* that holds the Mutex.
C22_ReceiveIsMutuallyExclusive ==
    /\ [](/\ Cardinality(InReceive) <= 1
          /\ \A w \in InReceive : lock = w
          /\ \A w \in Workers \ InReceive :
                WaitingForJob(w) => wpc[w] = "lock" /\ lock # w)
    /\ [][dequeued' # dequeued =>
              \E w \in Workers :
                  /\ lock = w /\ lock' = w
                  /\ wpc[w] = "recv"
                  /\ msg'[w] = Head(queue)
                  /\ \A v \in Workers \ {w} : msg'[v] = msg[v]]_vars

\* One Worker is blocked inside recv on an empty open channel and the other
\* waits for the Mutex.
C22_Witness ==
    /\ size = 2
    /\ chan = "open"
    /\ queue = << >>
    /\ \E v, w \in Pool :
          /\ wpc[v] = "recv" /\ lock = v
          /\ wpc[w] = "lock"

\* C23: recv returns Err only when the Sender has been dropped and nothing
\* is buffered, a Worker leaves its loop only on that Err and with nothing
\* buffered, and when a Worker has left its loop every job that was buffered
\* when the Sender was dropped has been handed out.
C23_ClosedOnlyWhenEmpty ==
    /\ [][\A w \in Workers :
            /\ (msg'[w] = Closed /\ msg[w] # Closed) =>
                  /\ wpc[w] = "recv"
                  /\ chan = "closed"
                  /\ queue = << >>
            /\ (Terminated(w)' /\ ~Terminated(w)) =>
                  /\ msg[w] = Closed
                  /\ chan = "closed"
                  /\ queue = << >>]_vars
    /\ [](\A w \in Workers :
            (Terminated(w) \/ msg[w] = Closed) =>
                /\ queue = << >>
                /\ Range(backlog) \subseteq Range(dequeued))

\* recv has just returned Err to a Worker after the two jobs that were
\* buffered when the Sender was dropped were handed out.
C23_Witness ==
    /\ Len(backlog) = 2
    /\ Range(backlog) \subseteq Range(dequeued)
    /\ \E w \in Pool : wpc[w] = "got" /\ msg[w] = Closed

\* The Worker has no job in hand and is not running one.
Idle(w) ==
    \/ wpc[w] \in {"lock", "recv"}
    \/ wpc[w] = "got" /\ msg[w] = Closed

\* C24: drop is in its loop over the workers only after the Sender has been
\* dropped and the channel closed; no handle is taken and no join returns
\* while the Sender is there; and under fair scheduling a join of an idle
\* Worker, with nothing left in the channel, sees that Worker terminate.
C24_SenderDroppedBeforeAnyJoin ==
    /\ [](pcMain \in {"take", "join"} => sender = "None" /\ chan = "closed")
    /\ [][(\/ joins' # joins
            \/ \E w \in Workers : thread[w] = "Some" /\ thread'[w] = "None")
              => /\ sender = "None" /\ chan = "closed"
                 /\ sender' = "None" /\ chan' = "closed"]_vars
    /\ (pcMain = "join" /\ Idle(joinIdx) /\ queue = << >>)
          ~> (joinIdx \in Workers /\ Terminated(joinIdx))

\* drop waits in the join of a Worker that is blocked inside recv on the
\* empty channel, which the dropped Sender has closed.
C24_Witness ==
    /\ pcMain = "join"
    /\ sender = "None"
    /\ wpc[joinIdx] = "recv"
    /\ queue = << >>
    /\ nextJob = 1

\* C25: a Worker that has reached Terminated stays there: it holds no job
\* and not the Mutex, and no step gives it either or moves it.
C25_TerminatedIsAbsorbing ==
    /\ [](\A w \in Workers :
            Terminated(w) => msg[w] = NoJob /\ lock # w)
    /\ [][\A w \in Workers :
            Terminated(w) =>
                /\ Terminated(w)'
                /\ msg'[w] = NoJob
                /\ lock' # w]_vars

\* One Worker has terminated while the other is still running a job and the
\* Mutex is free.
C25_Witness ==
    \E v, w \in Pool :
        /\ Terminated(v)
        /\ Executing(w)
        /\ lock = NoHolder

\* C26: a Worker becomes Terminated only from WaitingForJob, holding the
\* Err of a recv on the closed channel; while the Sender is there no Worker
\* is Terminated, and an idle Worker facing an empty channel stays where it
\* is, waiting for the Mutex or blocked inside recv.
C26_TerminatesOnlyOnClosedSignal ==
    /\ [](chan = "open" =>
            \A w \in Workers : ~Terminated(w) /\ msg[w] # Closed)
    /\ [][\A w \in Workers :
            /\ (Terminated(w)' /\ ~Terminated(w)) =>
                  /\ WaitingForJob(w)
                  /\ wpc[w] = "got" /\ msg[w] = Closed
                  /\ chan = "closed" /\ sender = "None"
            /\ (chan = "open" /\ queue = << >> /\ wpc[w] = "recv") =>
                  wpc'[w] = "recv"
            /\ (chan = "open" /\ queue = << >> /\ wpc[w] = "lock") =>
                  wpc'[w] \in {"lock", "recv"}]_vars

\* The pool is in use, a job has been run, and now the channel is empty
\* with one Worker blocked inside recv and the other waiting for the Mutex.
C26_Witness ==
    /\ pcMain = "running"
    /\ sender = "Some"
    /\ queue = << >>
    /\ completed[1] = 1
    /\ \E v, w \in Pool : wpc[v] = "recv" /\ wpc[w] = "lock"

\* C27: with WorkerII threads at most one job runs at a time; the Worker
\* that runs it holds the Mutex, every other Worker whose thread has not
\* ended waits for the Mutex, and none of them moves until the job is over.
C27_WorkerIISerializesJobs ==
    /\ [](/\ Cardinality({w \in Workers : Executing(w)}) <= 1
          /\ \A w \in Workers :
                Executing(w) =>
                    /\ lock = w
                    /\ \A v \in Pool \ {w} : Ended(v) \/ wpc[v] = "lock")
    /\ [][\A w \in Workers :
            (Executing(w) /\ Executing(w)') =>
                /\ lock' = w
                /\ wpc' = wpc
                /\ dequeued' = dequeued]_vars

\* A WorkerII runs a job under the guard while the other waits for the Mutex
\* and a job sits in the channel.
C27_Witness ==
    /\ queue # << >>
    /\ \E v, w \in Pool :
          /\ Executing(w) /\ lock = w
          /\ wpc[v] = "lock"

\* The Workers whose thread has been spawned.
Spawned == {w \in Workers : wpc[w] # "unborn"}

\* C28: the jobs being run are never more than size; the threads spawned
\* are never more than size and are those of workers 0 .. size - 1; and
\* once new has returned there are exactly size of them and no step spawns
\* another.
C28_BoundedParallelism ==
    /\ [](/\ Cardinality({w \in Workers : Executing(w)}) <= size
          /\ Cardinality({j \in Jobs : started[j] > completed[j]}) <= size
          /\ Spawned = 0 .. (spawned - 1)
          /\ spawned <= size
          /\ pcMain \notin {"start", "spawning", "newPanicked"} =>
                Spawned = Pool)
    /\ [][pcMain \notin {"start", "spawning"} =>
              /\ Spawned' = Spawned
              /\ spawned' = spawned
              /\ size' = size
              /\ \A w \in Workers : thread[w] = "None" => thread'[w] = "None"]_vars

\* A pool of one Worker runs a job while two more jobs wait in the channel.
C28_Witness ==
    /\ size = 1
    /\ Executing(0)
    /\ Len(queue) = 2

\* What a step of execute leaves alone: every Worker's position and job,
\* the Mutex, the set of Workers and their threads, the channel's ends, and
\* what has been handed out and run.
SubmitFrame ==
    /\ wpc' = wpc /\ msg' = msg
    /\ lock' = lock /\ poisoned' = poisoned
    /\ size' = size /\ spawned' = spawned /\ thread' = thread
    /\ sender' = sender /\ chan' = chan /\ rxRefs' = rxRefs
    /\ joinIdx' = joinIdx /\ joins' = joins
    /\ started' = started /\ completed' = completed /\ dequeued' = dequeued

\* C29 as stated: every step of execute puts exactly one job at the back of
\* the queue, leaves the jobs before it as they were and changes nothing
\* else.
C29_SubmitAppendsOneJob ==
    [][ExecuteStep =>
          /\ Len(queue') = Len(queue) + 1
          /\ SubSeq(queue', 1, Len(queue)) = queue
          /\ queue'[Len(queue')] = nextJob
          /\ SubmitFrame]_vars

\* C29 amended: a step of execute taken while some Worker thread has not
\* ended puts exactly one job at the back of the queue, leaves the jobs
\* before it as they were and changes nothing else; taken when every Worker
\* thread has ended it panics in the caller, puts nothing in the queue and
\* changes nothing else either.
C29_SubmitFrame ==
    [][ExecuteStep =>
          /\ SubmitFrame
          /\ IF \E w \in Pool : ~Ended(w)
               THEN /\ Len(queue') = Len(queue) + 1
                    /\ SubSeq(queue', 1, Len(queue)) = queue
                    /\ queue'[Len(queue')] = nextJob
                    /\ nextJob' = nextJob + 1
                    /\ pcMain' = pcMain
               ELSE /\ queue' = queue
                    /\ nextJob' = nextJob
                    /\ pcMain' = "panicking"]_vars

\* The third job has just been put behind the second, which is still
\* buffered, while both Workers are busy with the first job and the Mutex.
C29_Witness ==
    /\ pcMain = "running"
    /\ queue = << 2, 3 >>
    /\ size = 2
    /\ \E v, w \in Pool : Executing(v) /\ wpc[w] = "lock"

\* C30: with the Worker loop of Worker::new a job panics only in a thread
\* that does not hold the Mutex, so the Mutex is never poisoned; a Worker
\* waiting for the free Mutex can take it whatever has panicked; and under
\* fair scheduling, in a pool of two or more, a job submitted behind a job
\* that panics is still run to its end.
C30_FaultNeverPoisons ==
    /\ [](~poisoned)
    /\ [][\A w \in Workers :
            (Executing(w) /\ wpc'[w] = "panicked") =>
                /\ lock # w
                /\ lock' = lock
                /\ ~poisoned']_vars
    /\ [](\A w \in Workers :
            (Alive /\ wpc[w] = "lock" /\ lock = NoHolder)
                => ENABLED AcquireLock(w))
    /\ (size >= 2 /\ 2 \in Submitted /\ kind[1] = "fault" /\ kind[2] = "ok")
          ~> (completed[2] = 1)

\* The first job has ended its Worker's thread in a panic, and the other
\* Worker, having run the second job, has taken the Mutex again and holds
\* the third.
C30_Witness ==
    /\ kind[1] = "fault"
    /\ \E v, w \in Pool :
          /\ wpc[v] = "panicked"
          /\ completed[2] = 1
          /\ lock = w /\ wpc[w] = "got" /\ msg[w] = 3

\* drop has panicked in a join, or aborted the process by panicking there
\* while its owner was unwinding.
TeardownFailed == pcMain \in {"dropPanicked", "aborted"}

\* C31: the join of a Worker whose thread ended in a job's panic makes drop
\* panic there and then; drop stays failed, with the Workers after that one
\* never joined and their handles never taken; and under fair scheduling,
\* when no job hangs, a teardown of a pool in which a thread ended in a
\* panic does fail.
C31_TeardownFailsAtFaultedWorker ==
    /\ [][joins' # joins =>
            /\ pcMain = "join"
            /\ joins' = [joins EXCEPT ![joinIdx] = @ + 1]
            /\ IF wpc[joinIdx] = "panicked"
                 THEN TeardownFailed' /\ joinIdx' = joinIdx
                 ELSE /\ Terminated(joinIdx)
                      /\ pcMain' = "take"
                      /\ joinIdx' = joinIdx + 1]_vars
    /\ [](TeardownFailed =>
            /\ joinIdx \in Pool
            /\ wpc[joinIdx] = "panicked"
            /\ \A v \in Pool :
                  v > joinIdx => joins[v] = 0 /\ thread[v] = "Some")
    /\ [][TeardownFailed =>
            /\ pcMain' = pcMain
            /\ joinIdx' = joinIdx
            /\ joins' = joins
            /\ thread' = thread]_vars
    /\ (/\ pcMain \in {"take", "join"}
        /\ \E w \in Pool : wpc[w] = "panicked"
        /\ \A j \in Submitted : kind[j] # "hang")
          ~> TeardownFailed

\* drop has panicked in the join of worker 0, whose job panicked; worker 1
\* has since left its loop and has not been joined.
C31_Witness ==
    /\ pcMain = "dropPanicked"
    /\ joinIdx = 0
    /\ size = 2
    /\ Terminated(1)
    /\ joins[1] = 0
    /\ thread[1] = "Some"

\* new has returned a pool and every one of its Workers' threads has ended
\* in a job's panic.
AllFaulted ==
    /\ pcMain \notin {"start", "spawning", "newPanicked"}
    /\ \A w \in Pool : wpc[w] = "panicked"

\* C32: once every Worker's thread has ended in a job's panic no Arc of the
\* Receiver is left and what was buffered is gone; from then on no job is
\* handed out, started or completed, and a step of execute enqueues
\* nothing and panics in the caller.
C32_AllFaultedSubmitFails ==
    /\ [](AllFaulted => rxRefs = 0 /\ queue = << >> /\ lock = NoHolder)
    /\ [][AllFaulted =>
            /\ AllFaulted'
            /\ dequeued' = dequeued
            /\ started' = started
            /\ completed' = completed
            /\ queue' = << >>
            /\ ExecuteStep =>
                  /\ pcMain' = "panicking"
                  /\ unwinding'
                  /\ nextJob' = nextJob]_vars

\* The only Worker's thread ended in the first job's panic, the second job
\* was buffered and has never been started, and the execute of a third has
\* panicked.
C32_Witness ==
    /\ size = 1
    /\ wpc[0] = "panicked"
    /\ nextJob = 3
    /\ started[2] = 0
    /\ dequeued = << 1 >>
    /\ pcMain = "panicking"


(***************************************************************************)
(* The blog Post                                                           *)
(***************************************************************************)

\* The texts of a sequence of add_text calls, one after the other.
RECURSIVE Accumulated(_)
Accumulated(texts) ==
    IF texts = << >> THEN << >>
    ELSE Accumulated(SubSeq(texts, 1, Len(texts) - 1)) \o texts[Len(texts)]

\* C33: after any sequence of add_text, request_review and approve calls,
\* content() returns the empty string while the post is Draft or
\* PendingReview, and the whole text given to add_text so far, in the order
\* of the calls, when the post is Published; the call changes neither the
\* state nor the text of the post.
C33_ContentOnlyWhenPublished ==
    /\ [](lastCall = "content" =>
             /\ state \in {"Draft", "PendingReview"} => returned = << >>
             /\ state = "Published" => returned = Accumulated(added))
    /\ [][lastCall' = "content" =>
             /\ returned' = (IF state = "Published"
                               THEN Accumulated(added) ELSE << >>)
             /\ UNCHANGED << state, content, added >>]_vars

\* Two texts were added to a draft, the post went through review and
\* approval, and content() has returned both texts.
C33_Witness ==
    /\ state = "Published"
    /\ lastCall = "content"
    /\ added = << << "a" >>, << "b" >> >>
    /\ returned = << "a", "b" >>


\* C34: a new Post is Draft; the state becomes PendingReview only by a
\* request_review taken in Draft and Published only by an approve taken in
\* PendingReview, so that a Published post has been through both, in that
\* order; approve in Draft and request_review in PendingReview leave the
\* state unchanged; request_review and approve leave a Published post
\* Published, as does every other call.
C34_PostTransitions ==
    /\ [](lastCall = "new" => state = "Draft")
    /\ [](state \in {"Draft", "PendingReview", "Published"})
    /\ [][state' # state =>
             \/ /\ state = "Draft"
                /\ lastCall' = "request_review"
                /\ state' = "PendingReview"
             \/ /\ state = "PendingReview"
                /\ lastCall' = "approve"
                /\ state' = "Published"]_vars
    /\ [][state = "Draft" /\ lastCall' = "request_review" =>
             state' = "PendingReview"]_vars
    /\ [][state = "PendingReview" /\ lastCall' = "approve" =>
             state' = "Published"]_vars
    /\ [][state = "Draft" /\ lastCall' = "approve" => state' = "Draft"]_vars
    /\ [][state = "PendingReview" /\ lastCall' = "request_review" =>
             state' = "PendingReview"]_vars
    /\ [][state = "Published" => state' = "Published"]_vars

\* A post with no text was sent to review and approved, and a later
\* request_review has left it Published.
C34_Witness ==
    /\ state = "Published"
    /\ lastCall = "request_review"
    /\ postCalls = 4
    /\ added = << >>

====
